---- MODULE Spec2Model ----
(***************************************************************************)
(* Ingestion-and-retrieval pipeline of the storage-optimized RAG service:  *)
(* upload_documents / process_document / cleanup_old_documents /           *)
(* delete_document / query_documents / health_check of app/main.py, with   *)
(* the Database, Embeddings and TextProcessor collaborators it calls.      *)
(***************************************************************************)
EXTENDS Integers, Sequences, FiniteSets, TLC

VARIABLES
    documents,    \* DocumentStore rows: id -> [status, reason]
    chunks,       \* chunk rows of the DocumentStore, one run of ordinals
                  \* [doc, first, last] per stored batch
    vectors,      \* VectorIndex entries, likewise
    next_id,      \* the documents table's id sequence
    next_req,     \* number of the next upload request
    tasks,        \* request -> state of its process_document task
    sweeps,       \* request -> state of the cleanup_old_documents task it added
    sweep_log,    \* what the sweep that ended last logged: the deleted count of
                  \* each round and the number of deletions that failed
    upload_resp,  \* request -> status of the upload response ("none" = not yet sent)
    expired_upto, \* the documents with an id up to this one were uploaded more
                  \* than RETENTION_DAYS ago (ids follow the order of upload)
    similarity,   \* the index's vectors in order of insertion, each with the
                  \* cosine similarity (in percent) of the text being asked to it
    query_resp,   \* the last response of POST /query
    subsystems,   \* subsystem -> TRUE when it is reachable
    monitor,      \* health_handler.monitor is set
    health_resp,  \* the last response of GET /health
    chunk_in,     \* the call of chunk_text being followed: text and configuration
    chunk_out,    \* whether it has returned, and the chunks it returned
    vector_tasks, \* request -> state of the process_vectors task of the
                  \* earlier upload endpoint
    points        \* the points that endpoint upserts: point id -> the document
                  \* and the ordinal of the chunk whose vector it holds

pipelineVars == <<documents, chunks, vectors, next_id, next_req, tasks, upload_resp,
                  sweeps, sweep_log, expired_upto>>
queryVars == <<similarity, query_resp>>
healthVars == <<subsystems, monitor, health_resp>>
chunkVars == <<chunk_in, chunk_out>>
vectorVars == <<vector_tasks, points>>

vars == <<documents, chunks, vectors, next_id, next_req, tasks, upload_resp,
          sweeps, sweep_log, expired_upto, similarity, query_resp, subsystems,
          monitor, health_resp, chunk_in, chunk_out, vector_tasks, points>>

----------------------------------------------------------------------------
(* Bounds of the model *)

MaxUploads == 2
MaxBatches == 2

(* Program constants *)

batch_size == 32
RETENTION_DAYS == 30
CLEANUP_BATCH_SIZE == 100

\* Numbers of chunks a text may split into: none, one, and MaxBatches
\* batches of which the last holds one chunk
ChunkCounts == {0, 1, (MaxBatches - 1) * batch_size + 1}

Modes == {"background", "inline"}

\* str(e) of the errors an embedding or storage call raises
BatchErrors == {"EmbeddingError: model unavailable"}

NoneTypeError == "'NoneType' object has no attribute 'add_task'"

Min(a, b) == IF a < b THEN a ELSE b

----------------------------------------------------------------------------
(* DocumentStore and VectorIndex operations *)

\* id SERIAL PRIMARY KEY: the next value of the sequence, never reused
NewDocumentIdReused(docs, seq) == Cardinality(DOMAIN docs) + 1
NewDocumentId(docs, seq) == seq

\* db.store_document_metadata: a new row, status pending
store_document_metadata(docs, id) ==
    [d \in DOMAIN docs \cup {id} |->
        IF d = id THEN [status |-> "pending", reason |-> ""]
        ELSE docs[d]]

\* db.mark_document_failed: UPDATE of the document's row (no row, no change)
mark_document_failed(docs, id, reason) ==
    [d \in DOMAIN docs |->
        IF d = id THEN [docs[d] EXCEPT !.status = "failed", !.reason = reason]
        ELSE docs[d]]

\* the ordinals stored for document id
Ordinals(rows, id) == UNION {c.first..c.last : c \in {x \in rows : x.doc = id}}

\* rows db.store_chunks appends for a batch of n chunks: ordinals follow the
\* document's last stored chunk
store_chunks(rows, id, n) ==
    LET base == Cardinality(Ordinals(rows, id))
    IN  rows \cup {[doc |-> id, first |-> base, last |-> base + n - 1]}

\* db.delete_document on each store, for a set of ids
delete_rows(rows, ids) == {c \in rows : c.doc \notin ids}
delete_documents(docs, ids) == [d \in DOMAIN docs \ ids |-> docs[d]]

\* list_older_than(cutoff, batch_size): the oldest batch_size ids uploaded
\* before the cutoff date; `cutoff` is the last id uploaded before it
list_older_than(docs, cutoff, limit) ==
    LET old == {d \in DOMAIN docs : d <= cutoff}
    IN  IF Cardinality(old) <= limit THEN old
        ELSE {d \in old : Cardinality({e \in old : e < d}) < limit}

----------------------------------------------------------------------------
(* upload_documents *)

\* the except handler of process_document
process_document_except_logs_only(docs, id, e) == docs
process_document_except(docs, id, e) == mark_document_failed(docs, id, e)

NewTask(id, mode, decodable, n) ==
    [doc |-> id, mode |-> mode, decodable |-> decodable, nchunks |-> n, i |-> 0,
     pc |-> "running"]

\* the response once the task is set up: deferred, it is returned at once
\* with status "processing"; inline, none is sent while process_document
\* is awaited
UploadResponseAwaitsTask(mode) == "none"
UploadResponse(mode) == IF mode = "background" THEN "processing" ELSE "none"

\* POST /documents/upload up to the return (background) or up to the
\* await of process_document (inline)
upload_documents(empty, mode, decodable, n) ==
    /\ next_req <= MaxUploads
    /\ next_req' = next_req + 1
    /\ UNCHANGED <<sweeps, sweep_log, expired_upto>>
    /\ IF empty
       THEN \* HTTPException(400) raised inside the try, re-raised as 500
            /\ upload_resp' = [r \in DOMAIN upload_resp \cup {next_req} |->
                                 IF r = next_req THEN "error500" ELSE upload_resp[r]]
            /\ UNCHANGED <<documents, chunks, vectors, next_id, tasks>>
       ELSE LET id == NewDocumentId(documents, next_id) IN
            /\ documents' = store_document_metadata(documents, id)
            /\ next_id' = next_id + 1
            /\ tasks' = [r \in DOMAIN tasks \cup {next_req} |->
                           IF r = next_req THEN NewTask(id, mode, decodable, n)
                           ELSE tasks[r]]
            /\ upload_resp' = [r \in DOMAIN upload_resp \cup {next_req} |->
                                 IF r = next_req THEN UploadResponse(mode)
                                 ELSE upload_resp[r]]
            /\ UNCHANGED <<chunks, vectors>>

\* the task's record once its coroutine has ended at `pc`: its locals are
\* gone; of a failed one the number of chunks it had gone through is kept
Ended(t, pc) ==
    [t EXCEPT !.pc = pc, !.decodable = TRUE, !.nchunks = 0,
              !.i = IF pc = "failed" THEN t.i ELSE 0]

\* the inline caller resumes after process_document returns: status "completed"
Returned(r) ==
    IF tasks[r].mode = "inline" THEN [upload_resp EXCEPT ![r] = "completed"]
    ELSE upload_resp

\* process_document: zlib.decompress(...).decode('utf-8') raises
ProcessDecodeFails(r) ==
    /\ tasks[r].pc = "running"
    /\ ~tasks[r].decodable
    /\ documents' = process_document_except(documents, tasks[r].doc,
                         "UnicodeDecodeError: invalid start byte")
    /\ tasks' = [tasks EXCEPT ![r] = Ended(@, "failed")]
    /\ upload_resp' = Returned(r)
    /\ UNCHANGED <<chunks, vectors, next_id, next_req, sweeps, sweep_log, expired_upto>>

\* len(chunks[i:i + embeddings.batch_size])
BatchLenUnsliced(nchunks, i) == batch_size
BatchLen(nchunks, i) == Min(batch_size, nchunks - i)

\* one iteration of the batch loop: encode_batch, then await db.store_chunks
ProcessBatch(r) ==
    LET t == tasks[r]
        n == BatchLen(t.nchunks, t.i)
    IN
    /\ t.pc = "running"
    /\ t.decodable
    /\ t.i < t.nchunks
    /\ \/ \* the batch is embedded and stored
          /\ t.doc \in DOMAIN documents
          /\ chunks' = store_chunks(chunks, t.doc, n)
          /\ vectors' = store_chunks(vectors, t.doc, n)
          /\ tasks' = [tasks EXCEPT ![r].i = t.i + batch_size]
          /\ UNCHANGED <<documents, upload_resp>>
       \/ \* the document's row is gone and nothing checks it: stored all the same
          /\ t.doc \notin DOMAIN documents
          /\ chunks' = store_chunks(chunks, t.doc, n)
          /\ vectors' = store_chunks(vectors, t.doc, n)
          /\ tasks' = [tasks EXCEPT ![r].i = t.i + batch_size]
          /\ UNCHANGED <<documents, upload_resp>>
       \/ \* the document's row is gone and the chunk rows' foreign key rejects
          \* the batch
          /\ t.doc \notin DOMAIN documents
          /\ UNCHANGED vectors
          /\ documents' = process_document_except(documents, t.doc,
                               "StorageError: foreign key violation")
          /\ tasks' = [tasks EXCEPT ![r] = Ended(@, "failed")]
          /\ upload_resp' = Returned(r)
          /\ UNCHANGED chunks
       \/ \* encode_batch or store_chunks raises: nothing of the batch is stored
          /\ \E e \in BatchErrors :
                documents' = process_document_except(documents, t.doc, e)
          /\ tasks' = [tasks EXCEPT ![r] = Ended(@, "failed")]
          /\ upload_resp' = Returned(r)
          /\ UNCHANGED <<chunks, vectors>>
    /\ UNCHANGED <<next_id, next_req, sweeps, sweep_log, expired_upto>>

\* after the loop: background_tasks.add_task(cleanup_old_documents), which
\* raises AttributeError when background_tasks is None
ProcessFinish(r) ==
    LET t == tasks[r] IN
    /\ t.pc = "running"
    /\ t.decodable
    /\ t.i >= t.nchunks
    /\ IF t.mode = "background"
       THEN \* cleanup_old_documents starts as process_document returns:
            \* cutoff_date = datetime.now() - timedelta(days=RETENTION_DAYS)
            /\ tasks' = [tasks EXCEPT ![r] = Ended(@, "finished")]
            /\ sweeps' = [q \in DOMAIN sweeps \cup {r} |->
                            IF q = r THEN [cutoff |-> expired_upto, rounds |-> <<>>,
                                          failures |-> 0]
                            ELSE sweeps[q]]
            /\ UNCHANGED <<documents, upload_resp>>
       ELSE /\ documents' = process_document_except(documents, t.doc, NoneTypeError)
            /\ tasks' = [tasks EXCEPT ![r] = Ended(@, "no_background_tasks")]
            /\ upload_resp' = Returned(r)
            /\ UNCHANGED sweeps
    /\ UNCHANGED <<chunks, vectors, next_id, next_req, sweep_log, expired_upto>>

----------------------------------------------------------------------------
(* cleanup_old_documents *)

\* the documents of a fetched batch whose deletion may fail: its first, its last
MayFail(fetched) ==
    {d \in fetched : (\A e \in fetched : d <= e) \/ (\A e \in fetched : e <= d)}

\* the loop condition of cleanup_old_documents: another round unless the
\* round deleted fewer than a full batch
KeepSweepingUntilEmpty(deleted_count) == deleted_count > 0
KeepSweeping(deleted_count) == ~(deleted_count < CLEANUP_BATCH_SIZE)

\* one await db.delete_old_documents(cutoff, batch_size): the deletion of at
\* most one fetched document fails, is logged and skipped
CleanupRound(r) ==
    \E t \in {sweeps[r]} :
    \E fetched \in {list_older_than(documents, t.cutoff, CLEANUP_BATCH_SIZE)} :
    \* f: the document whose deletion fails; 0 (no document's id): none does
    \E f \in MayFail(fetched) \cup {0} :
    \E gone \in {fetched \ {f}} :
        LET deleted_count == Cardinality(gone)
            log == [rounds |-> Append(t.rounds, deleted_count),
                    failures |-> t.failures + Cardinality(fetched \cap {f})]
        IN
        /\ documents' = delete_documents(documents, gone)
        /\ chunks' = delete_rows(chunks, gone)
        /\ vectors' = delete_rows(vectors, gone)
        /\ IF KeepSweeping(deleted_count)
           THEN /\ sweeps' = [sweeps EXCEPT ![r] = [cutoff |-> t.cutoff] @@ log]
                /\ UNCHANGED sweep_log
           ELSE /\ sweeps' = [q \in DOMAIN sweeps \ {r} |-> sweeps[q]]
                /\ sweep_log' = log
        /\ UNCHANGED <<next_id, next_req, tasks, upload_resp, expired_upto>>

----------------------------------------------------------------------------
(* delete_document and the passing of time *)

\* DELETE /documents/{id} of a stored document
DeleteDocument(d) ==
    /\ d \in DOMAIN documents
    /\ documents' = delete_documents(documents, {d})
    /\ chunks' = delete_rows(chunks, {d})
    /\ vectors' = delete_rows(vectors, {d})
    /\ UNCHANGED <<next_id, next_req, tasks, sweeps, sweep_log, upload_resp, expired_upto>>

\* time passes: document d and every older one are now more than
\* RETENTION_DAYS old
Age(d) ==
    /\ d > expired_upto
    /\ expired_upto' = d
    /\ UNCHANGED <<documents, chunks, vectors, next_id, next_req, tasks, sweeps,
                   sweep_log, upload_resp>>

----------------------------------------------------------------------------
(* query_documents *)

MaxTopK == 11
MaxVectors == 11

DefaultTopK == 5
TopKCap == 10
DefaultThreshold == 70

\* similarities, and the inputs of a query: top_k (0: none given) and
\* threshold, in percent
Scores == {50, 90}
TopKs == {0, 1, DefaultTopK, TopKCap, MaxTopK}
Thresholds == {0, 50, 90, 100}

NoQueryResponse == [code |-> 0]

\* min(query.top_k or 5, 10)
SearchLimitUnclamped(top_k) == IF top_k = 0 THEN DefaultTopK ELSE top_k
SearchLimit(top_k) == Min(IF top_k = 0 THEN DefaultTopK ELSE top_k, TopKCap)

\* query.threshold or 0.7
SearchThresholdIgnored(threshold) == 0
SearchThreshold(threshold) == IF threshold = 0 THEN DefaultThreshold ELSE threshold

\* hits in descending score, ties in order of insertion
RECURSIVE Ranked(_, _)
Ranked(entries, levels) ==
    IF levels = {} THEN <<>>
    ELSE LET best == CHOOSE x \in levels : \A y \in levels : x >= y
             AtBest(e) == e.score = best
         IN  SelectSeq(entries, AtBest) \o Ranked(entries, levels \ {best})

\* db.semantic_search(query_embedding, limit, threshold)
semantic_search(limit, threshold) ==
    LET ranked == Ranked(similarity,
                         {similarity[j].score : j \in 1..Len(similarity)}
                             \cap {x \in 0..100 : x >= threshold})
    IN  SubSeq(ranked, 1, Min(limit, Len(ranked)))

RECURSIVE SumScores(_)
SumScores(results) ==
    IF results = <<>> THEN 0 ELSE Head(results).score + SumScores(Tail(results))

\* POST /query
query_documents(top_k, threshold, embed_ok) ==
    LET limit == SearchLimit(top_k)
        used == SearchThreshold(threshold)
        results == semantic_search(limit, used)
        request == [top_k |-> top_k, threshold |-> threshold, embed_ok |-> embed_ok]
    IN
    /\ query_resp' =
          IF ~embed_ok
          THEN \* embeddings.encode_text raises: HTTPException(500)
               [code |-> 500, request |-> request]
          ELSE IF results = <<>>
          THEN [code |-> 200, request |-> request, limit |-> limit, threshold |-> used,
                answer |-> "No relevant documents found", sources |-> <<>>,
                confidence |-> 0]
          ELSE [code |-> 200, request |-> request, limit |-> limit, threshold |-> used,
                answer |-> "Found relevant passages",
                sources |-> [j \in 1..Len(results) |->
                               [document_id |-> results[j].doc,
                                ordinal |-> results[j].ordinal,
                                confidence |-> results[j].score]],
                confidence |-> SumScores(results) \div Len(results)]
    /\ UNCHANGED <<vectorVars, chunkVars, pipelineVars, similarity, healthVars>>

\* the endpoint keeps no state: one request is followed from each index
Query ==
    \E top_k \in TopKs, threshold \in Thresholds, embed_ok \in BOOLEAN :
        /\ query_resp = NoQueryResponse
        /\ (~embed_ok => top_k = 0 /\ threshold = 0)
        /\ query_documents(top_k, threshold, embed_ok)

----------------------------------------------------------------------------
(* health_check *)

NoHealthResponse == [endpoint |-> "none"]
Subsystems == {"database", "vector_store", "embeddings", "disk"}

\* HealthMonitor.check_postgres / check_qdrant: the probe's own try/except
\* turns a failure into an "unhealthy" entry
check_probe(s) == IF subsystems[s] THEN "healthy" ELSE "unhealthy"

\* db.check_health, db.check_vector_store, embeddings.check_health: what a
\* probe of main.py's collaborators can give when its subsystem is down
ProbeOutcomes(s) == IF subsystems[s] THEN {"healthy"} ELSE {"unhealthy", "raises"}

\* GET /health of main.py: one try around os.statvfs and the three probes
main_health_check(db, vs, emb, free) ==
    IF ~subsystems["disk"] \/ "raises" \in {db, vs, emb}
    THEN [endpoint |-> "main", code |-> 500, status |-> "unhealthy"]
    ELSE [endpoint |-> "main", code |-> 200, status |-> "healthy",
          storage_status |-> free,
          components |-> [database |-> db, vector_store |-> vs, embeddings |-> emb]]

\* GET /health/ of health_handler.py
router_health_check ==
    IF ~monitor
    THEN [endpoint |-> "router", code |-> 500, status |-> "Health monitor not initialized"]
    ELSE LET pg_status == check_probe("database")
             qdrant_status == check_probe("vector_store")
         IN  [endpoint |-> "router", code |-> 200,
              status |-> IF pg_status = "healthy" /\ qdrant_status = "healthy"
                         THEN "healthy" ELSE "degraded",
              components |-> [database |-> pg_status, vector_store |-> qdrant_status]]

MainHealth ==
    /\ \E db \in ProbeOutcomes("database"), vs \in ProbeOutcomes("vector_store"),
          emb \in ProbeOutcomes("embeddings"), free \in {"ok", "low"} :
          health_resp' = main_health_check(db, vs, emb, free)
    /\ UNCHANGED <<vectorVars, chunkVars, pipelineVars, queryVars, subsystems, monitor>>

RouterHealth ==
    /\ health_resp' = router_health_check
    /\ UNCHANGED <<vectorVars, chunkVars, pipelineVars, queryVars, subsystems, monitor>>

\* init_health_monitor
InitHealthMonitor ==
    /\ ~monitor
    /\ monitor' = TRUE
    /\ UNCHANGED <<vectorVars, chunkVars, pipelineVars, queryVars, subsystems, health_resp>>

\* a subsystem becomes unreachable, or reachable again
Outage ==
    /\ \E s \in Subsystems : subsystems' = [subsystems EXCEPT ![s] = ~@]
    /\ UNCHANGED <<vectorVars, chunkVars, pipelineVars, queryVars, monitor, health_resp>>

----------------------------------------------------------------------------
(* chunk_text: RecursiveCharacterTextSplitter(chunk_size, chunk_overlap)   *)
(* .split_text(text), with the splitter's default separators, separators   *)
(* kept, whitespace stripped and len as the length function.  A text is a  *)
(* sequence of characters.                                                 *)

MaxTextLen == 5
MaxChunkSize == 4

NoChunkCall == [text |-> <<>>, chunk_size |-> 0, chunk_overlap |-> 0]
NotChunked == [returned |-> FALSE, chunks |-> <<>>]

Chars == {"a", " ", "\n"}
Whitespace == {" ", "\n"}
Scenario == <<"a", "b", "c", "d", "e", "f", "g", "h", "i", "j">>

\* ["\n\n", "\n", " ", ""]
Separators == << <<"\n", "\n">>, <<"\n">>, <<" ">>, <<>> >>

\* re.search(separator, text), and where the first match starts
Occurs(sep, text) ==
    \E i \in 1..(Len(text) - Len(sep) + 1) : SubSeq(text, i, i + Len(sep) - 1) = sep
FirstAt(sep, text) ==
    CHOOSE i \in 1..(Len(text) - Len(sep) + 1) :
        /\ SubSeq(text, i, i + Len(sep) - 1) = sep
        /\ \A j \in 1..(i - 1) : SubSeq(text, j, j + Len(sep) - 1) # sep

\* the pieces of text between the matches of a non-empty separator
RECURSIVE re_split(_, _)
re_split(sep, text) ==
    IF ~Occurs(sep, text) THEN <<text>>
    ELSE LET i == FirstAt(sep, text)
         IN  <<SubSeq(text, 1, i - 1)>>
                 \o re_split(sep, SubSeq(text, i + Len(sep), Len(text)))

NonEmpty(piece) == piece # <<>>

\* _split_text_with_regex(text, separator, keep_separator=True): each
\* separator stays at the head of the piece that follows it; "" splits into
\* characters; empty pieces are dropped
split_text_with_regex(text, sep) ==
    IF sep = <<>> THEN [k \in 1..Len(text) |-> <<text[k]>>]
    ELSE LET raw == re_split(sep, text)
         IN  SelectSeq([k \in 1..Len(raw) |-> IF k = 1 THEN raw[1] ELSE sep \o raw[k]],
                       NonEmpty)

RECURSIVE lstrip(_)
lstrip(text) ==
    IF text # <<>> /\ Head(text) \in Whitespace THEN lstrip(Tail(text)) ELSE text

RECURSIVE rstrip(_)
rstrip(text) ==
    IF text # <<>> /\ text[Len(text)] \in Whitespace
    THEN rstrip(SubSeq(text, 1, Len(text) - 1)) ELSE text

RECURSIVE Concat(_)
Concat(pieces) == IF pieces = <<>> THEN <<>> ELSE Head(pieces) \o Concat(Tail(pieces))

\* _join_docs(docs, ""): the stripped join, or nothing when that is empty
join_docs(docs) ==
    LET text == rstrip(lstrip(Concat(docs)))
    IN  IF text = <<>> THEN <<>> ELSE <<text>>

\* the while loop of _merge_splits: pieces are dropped from the front of
\* current_doc while more than the overlap is kept or the next piece of
\* length len does not fit
RECURSIVE PopFront(_, _, _, _, _)
PopFront(current_doc, total, len, chunk_size, chunk_overlap) ==
    IF total > chunk_overlap \/ (total + len > chunk_size /\ total > 0)
    THEN PopFront(Tail(current_doc), total - Len(Head(current_doc)), len,
                  chunk_size, chunk_overlap)
    ELSE [current_doc |-> current_doc, total |-> total]

\* the for loop of _merge_splits from its state (docs, current_doc, total)
RECURSIVE MergeFrom(_, _, _, _, _, _)
MergeFrom(splits, docs, current_doc, total, chunk_size, chunk_overlap) ==
    IF splits = <<>> THEN docs \o join_docs(current_doc)
    ELSE LET d == Head(splits)
             len == Len(d)
             emit == total + len > chunk_size /\ current_doc # <<>>
             kept == IF emit
                     THEN PopFront(current_doc, total, len, chunk_size, chunk_overlap)
                     ELSE [current_doc |-> current_doc, total |-> total]
         IN  MergeFrom(Tail(splits),
                       IF emit THEN docs \o join_docs(current_doc) ELSE docs,
                       Append(kept.current_doc, d), kept.total + len,
                       chunk_size, chunk_overlap)

\* _merge_splits(splits, "")
merge_splits(splits, chunk_size, chunk_overlap) ==
    MergeFrom(splits, <<>>, <<>>, 0, chunk_size, chunk_overlap)

RECURSIVE split_text(_, _, _, _)
RECURSIVE SplitLoop(_, _, _, _, _, _)

\* the for loop of _split_text: pieces shorter than chunk_size are gathered
\* and merged; another is split with the separators that remain, or kept
\* whole when none remains
SplitLoop(splits, good_splits, final_chunks, new_separators, chunk_size, chunk_overlap) ==
    LET merged == IF good_splits = <<>> THEN <<>>
                  ELSE merge_splits(good_splits, chunk_size, chunk_overlap)
    IN
    IF splits = <<>> THEN final_chunks \o merged
    ELSE LET piece == Head(splits) IN
         IF Len(piece) < chunk_size
         THEN SplitLoop(Tail(splits), Append(good_splits, piece), final_chunks,
                        new_separators, chunk_size, chunk_overlap)
         ELSE SplitLoop(Tail(splits), <<>>,
                        final_chunks \o merged
                            \o (IF new_separators = <<>> THEN <<piece>>
                                ELSE split_text(piece, new_separators,
                                                chunk_size, chunk_overlap)),
                        new_separators, chunk_size, chunk_overlap)

\* _split_text(text, separators): split on the first separator that occurs
split_text(text, separators, chunk_size, chunk_overlap) ==
    LET found == {i \in 1..Len(separators) :
                     separators[i] = <<>> \/ Occurs(separators[i], text)}
        first == IF found = {} THEN Len(separators)
                 ELSE CHOOSE i \in found : \A j \in found : i <= j
        separator == separators[first]
        new_separators == IF found = {} \/ separator = <<>> THEN <<>>
                          ELSE SubSeq(separators, first + 1, Len(separators))
    IN  SplitLoop(split_text_with_regex(text, separator), <<>>, <<>>, new_separators,
                  chunk_size, chunk_overlap)

\* utils.chunk_text
chunk_text_oversized(text, chunk_size, chunk_overlap) ==
    split_text(text, Separators, chunk_size + chunk_overlap, chunk_overlap)
chunk_text(text, chunk_size, chunk_overlap) ==
    split_text(text, Separators, chunk_size, chunk_overlap)

\* one call of chunk_text
ChunkText ==
    /\ ~chunk_out.returned
    /\ chunk_out' = [returned |-> TRUE,
                     chunks |-> chunk_text(chunk_in.text, chunk_in.chunk_size,
                                           chunk_in.chunk_overlap)]
    /\ UNCHANGED <<chunk_in, pipelineVars, queryVars, healthVars, vectorVars>>

----------------------------------------------------------------------------
(* upload_documents and process_vectors of the earlier application         *)
(* (logging_config.py)                                                     *)

MaxVectorUploads == 3
MaxVectorChunks == 2

\* db.qdrant.upsert(points=[{"id": i, ...} for i, ... in enumerate(...)]):
\* insert or replace, the point ids being the chunks' positions
upsert(index, doc, n) ==
    [i \in DOMAIN index \cup 0..(n - 1) |->
        IF i < n THEN [doc |-> doc, ordinal |-> i] ELSE index[i]]

\* process_vectors; an error of chunk_text, encode or upsert is only logged
process_vectors(r) ==
    /\ vector_tasks[r].pc = "scheduled"
    /\ \/ /\ points' = upsert(points, vector_tasks[r].doc, vector_tasks[r].nchunks)
          /\ vector_tasks' = [vector_tasks EXCEPT ![r].pc = "completed"]
       \/ /\ vector_tasks' = [vector_tasks EXCEPT ![r].pc = "failed"]
          /\ UNCHANGED points
    /\ UNCHANGED <<pipelineVars, queryVars, healthVars, chunkVars>>

\* POST /documents/upload of the earlier application: the document's row is
\* inserted, then process_vectors is added as a background task or run
\* inline (it is no coroutine: inline, nothing interleaves with it)
vector_upload(mode, n, inline_ok) ==
    LET id == NewDocumentId(documents, next_id)
        \* the documents table of this application has no status
        row == [status |-> "", reason |-> ""]
        task == [doc |-> id, nchunks |-> n,
                 pc |-> IF mode = "background" THEN "scheduled"
                        ELSE IF inline_ok THEN "completed" ELSE "failed"]
    IN
    /\ next_req <= MaxVectorUploads
    /\ next_req' = next_req + 1
    /\ next_id' = next_id + 1
    /\ documents' = [d \in DOMAIN documents \cup {id} |->
                        IF d = id THEN row ELSE documents[d]]
    /\ vector_tasks' = [r \in DOMAIN vector_tasks \cup {next_req} |->
                           IF r = next_req THEN task ELSE vector_tasks[r]]
    /\ points' = IF mode = "inline" /\ inline_ok THEN upsert(points, id, n) ELSE points
    /\ upload_resp' = [r \in DOMAIN upload_resp \cup {next_req} |->
                          IF r = next_req
                          THEN (IF mode = "background" THEN "processing" ELSE "completed")
                          ELSE upload_resp[r]]
    /\ UNCHANGED <<chunks, vectors, tasks, sweeps, sweep_log, expired_upto>>
    /\ UNCHANGED <<queryVars, healthVars, chunkVars>>

VectorUpload ==
    \E mode \in Modes, n \in 0..MaxVectorChunks, inline_ok \in BOOLEAN :
        /\ (mode = "background" => inline_ok)
        /\ vector_upload(mode, n, inline_ok)

ProcessVectors == \E r \in DOMAIN vector_tasks : process_vectors(r)

----------------------------------------------------------------------------
(* Initial states and specifications *)

Idle ==
    /\ similarity = <<>>
    /\ query_resp = NoQueryResponse
    /\ subsystems = [s \in Subsystems |-> TRUE]
    /\ monitor = FALSE
    /\ health_resp = NoHealthResponse
    /\ chunk_in = NoChunkCall
    /\ chunk_out = NotChunked
    /\ vector_tasks = <<>>
    /\ points = <<>>

Init ==
    /\ documents = <<>>
    /\ chunks = {}
    /\ vectors = {}
    /\ next_id = 1
    /\ next_req = 1
    /\ tasks = <<>>
    /\ upload_resp = <<>>
    /\ sweeps = <<>>
    /\ sweep_log = [rounds |-> <<>>, failures |-> 0]
    /\ expired_upto = 0
    /\ Idle

Upload ==
    /\ \E empty \in BOOLEAN, mode \in Modes, decodable \in BOOLEAN, n \in ChunkCounts :
          /\ (empty => mode = "background" /\ decodable /\ n = 0)
          /\ (~decodable => n = 0)
          /\ upload_documents(empty, mode, decodable, n)
    /\ UNCHANGED <<queryVars, healthVars, chunkVars, vectorVars>>
DecodeFails ==
    (\E r \in DOMAIN tasks : ProcessDecodeFails(r)) /\ UNCHANGED <<queryVars, healthVars, chunkVars, vectorVars>>
Batch ==
    (\E r \in DOMAIN tasks : ProcessBatch(r)) /\ UNCHANGED <<queryVars, healthVars, chunkVars, vectorVars>>
Finish ==
    (\E r \in DOMAIN tasks : ProcessFinish(r)) /\ UNCHANGED <<queryVars, healthVars, chunkVars, vectorVars>>
Delete ==
    (\E d \in DOMAIN documents : DeleteDocument(d)) /\ UNCHANGED <<queryVars, healthVars, chunkVars, vectorVars>>
Cleanup ==
    (\E r \in DOMAIN sweeps : CleanupRound(r)) /\ UNCHANGED <<queryVars, healthVars, chunkVars, vectorVars>>
TimePasses ==
    (\E d \in DOMAIN documents : Age(d)) /\ UNCHANGED <<queryVars, healthVars, chunkVars, vectorVars>>

\* uploads, their processing and deletes
Next == Upload \/ DecodeFails \/ Batch \/ Finish \/ Delete

Spec == Init /\ [][Next]_vars

\* the same with the retention sweeps the uploads add, and time passing
RetentionNext == Next \/ Cleanup \/ TimePasses

RetentionSpec == Init /\ [][RetentionNext]_vars

----------------------------------------------------------------------------
(* A retention sweep over a large store *)

MaxOld == 250

\* n documents older than the retention period, and the sweep added by the
\* upload that followed them
SweepInit ==
    /\ \E n \in 0..MaxOld :
        /\ documents = [d \in 1..(n + 1) |-> [status |-> "pending", reason |-> ""]]
        /\ chunks = {[doc |-> d, first |-> 0, last |-> 0] : d \in 1..(n + 1)}
        /\ vectors = {[doc |-> d, first |-> 0, last |-> 0] : d \in 1..(n + 1)}
        /\ next_id = n + 2
        /\ next_req = n + 2
        /\ tasks = [r \in 1..(n + 1) |-> Ended(NewTask(r, "background", TRUE, 1), "finished")]
        /\ upload_resp = [r \in 1..(n + 1) |-> "processing"]
        /\ sweeps = [r \in {n + 1} |-> [cutoff |-> n, rounds |-> <<>>, failures |-> 0]]
        /\ sweep_log = [rounds |-> <<>>, failures |-> 0]
        /\ expired_upto = n
    /\ Idle

\* the event loop resumes the sweep whenever its await completes
SweepSpec == SweepInit /\ [][Cleanup]_vars /\ WF_vars(Cleanup)

----------------------------------------------------------------------------
(* Queries against an index of one ingested document *)

QueryInit ==
    /\ \E n \in 0..MaxVectors :
        /\ documents = [d \in {1} |-> [status |-> "pending", reason |-> ""]]
        /\ chunks = {[doc |-> 1, first |-> 0, last |-> n - 1] : k \in 1..Min(n, 1)}
        /\ vectors = chunks
        /\ tasks = [r \in {1} |-> Ended(NewTask(1, "background", TRUE, n), "finished")]
        /\ \E score \in [1..n -> Scores] :
              similarity = [j \in 1..n |->
                              [doc |-> 1, ordinal |-> j - 1, score |-> score[j]]]
    /\ next_id = 2
    /\ next_req = 2
    /\ upload_resp = [r \in {1} |-> "processing"]
    /\ sweeps = <<>>
    /\ sweep_log = [rounds |-> <<0>>, failures |-> 0]
    /\ expired_upto = 0
    /\ query_resp = NoQueryResponse
    /\ subsystems = [s \in Subsystems |-> TRUE]
    /\ monitor = FALSE
    /\ health_resp = NoHealthResponse
    /\ chunk_in = NoChunkCall
    /\ chunk_out = NotChunked
    /\ vector_tasks = <<>>
    /\ points = <<>>

QuerySpec == QueryInit /\ [][Query]_vars

----------------------------------------------------------------------------
(* Health reports while subsystems come and go *)

HealthNext == MainHealth \/ RouterHealth \/ InitHealthMonitor \/ Outage

HealthSpec == Init /\ [][HealthNext]_vars

----------------------------------------------------------------------------
(* Calls of chunk_text on every short text and valid configuration *)

ChunkInit ==
    /\ documents = <<>>
    /\ chunks = {}
    /\ vectors = {}
    /\ next_id = 1
    /\ next_req = 1
    /\ tasks = <<>>
    /\ upload_resp = <<>>
    /\ sweeps = <<>>
    /\ sweep_log = [rounds |-> <<>>, failures |-> 0]
    /\ expired_upto = 0
    /\ similarity = <<>>
    /\ query_resp = NoQueryResponse
    /\ subsystems = [s \in Subsystems |-> TRUE]
    /\ monitor = FALSE
    /\ health_resp = NoHealthResponse
    /\ \E text \in UNION {[1..n -> Chars] : n \in 0..MaxTextLen} \cup {Scenario},
          chunk_size \in 2..MaxChunkSize :
          \E chunk_overlap \in 1..(chunk_size - 1) :
              chunk_in = [text |-> text, chunk_size |-> chunk_size,
                          chunk_overlap |-> chunk_overlap]
    /\ chunk_out = NotChunked
    /\ vector_tasks = <<>>
    /\ points = <<>>

ChunkSpec == ChunkInit /\ [][ChunkText]_vars

----------------------------------------------------------------------------
(* Uploads through the earlier application *)

VectorNext == VectorUpload \/ ProcessVectors

VectorSpec == Init /\ [][VectorNext]_vars

----------------------------------------------------------------------------
(* Properties of the ingestion pipeline (Spec, RetentionSpec) *)

\* C1: as claimed, a document's row is created with status pending and its
\* status only ever steps pending -> processing, processing -> completed or
\* processing -> failed, under every interleaving of upload, processing,
\* delete and cleanup.  process_document steps pending -> failed.
C1_StatusFollowsLifecycle ==
    [][/\ \A d \in DOMAIN documents' \ DOMAIN documents :
             documents'[d].status = "pending"
       /\ \A d \in DOMAIN documents \cap DOMAIN documents' :
             \/ documents'[d].status = documents[d].status
             \/ <<documents[d].status, documents'[d].status>> \in
                   {<<"pending", "processing">>, <<"processing", "completed">>,
                    <<"processing", "failed">>}]_vars

\* C2: as claimed, once process_document has gone through every batch of a
\* document without an embedding or storage error, background or inline, the
\* document (while it is stored) has status completed, and so is not failed.
C2_AllBatchesStoredCompletes ==
    \A r \in DOMAIN tasks :
        LET t == tasks[r] IN
        (/\ t.pc \in {"finished", "no_background_tasks"}
         /\ t.doc \in DOMAIN documents
         /\ Ordinals(chunks, t.doc) # {})
            => documents[t.doc].status = "completed"

\* C3: when a batch after the first fails, the document (while it is stored)
\* is failed with a non-empty reason, and every chunk and vector the earlier
\* batches stored is still there.
C3_FailedBatchKeepsEarlierChunks ==
    \A r \in DOMAIN tasks :
        LET t == tasks[r] IN
        (t.pc = "failed" /\ t.i >= batch_size /\ t.doc \in DOMAIN documents)
            => /\ documents[t.doc].status = "failed"
               /\ documents[t.doc].reason # ""
               /\ 0..(t.i - 1) \subseteq Ordinals(chunks, t.doc)
               /\ 0..(t.i - 1) \subseteq Ordinals(vectors, t.doc)

\* C3's case: a stored document whose second or later batch failed
C3_Witness ==
    \E r \in DOMAIN tasks :
        /\ tasks[r].pc = "failed"
        /\ tasks[r].i >= batch_size
        /\ tasks[r].doc \in DOMAIN documents
        /\ batch_size = Cardinality(Ordinals(chunks, tasks[r].doc))

\* C4: no two process_document tasks in flight work on the same document id.
C4_OneProcessingPerDocument ==
    \A r1, r2 \in DOMAIN tasks :
        (/\ tasks[r1].pc = "running"
         /\ tasks[r2].pc = "running"
         /\ tasks[r1].doc = tasks[r2].doc) => r1 = r2

\* C4's case: the processing of two different documents overlaps, each
\* between two of its batches
C4_Witness ==
    \E r1, r2 \in DOMAIN tasks :
        /\ tasks[r1].doc # tasks[r2].doc
        /\ \A r \in {r1, r2} :
              /\ tasks[r].pc = "running"
              /\ 0 < tasks[r].i
              /\ tasks[r].i < tasks[r].nchunks

\* C5: as claimed, of a document id that was issued and whose row is deleted
\* no chunk row and no vector exists, in any later state.
C5_NothingOutlivesItsDocument ==
    \A d \in 1..(next_id - 1) :
        d \notin DOMAIN documents
            => Ordinals(chunks, d) = {} /\ Ordinals(vectors, d) = {}

----------------------------------------------------------------------------
(* Properties of the query endpoint (QuerySpec) *)

\* C6: as claimed, a query with top_k >= 1 and a threshold in [0, 1] is
\* searched with limit min(top_k, 10) and exactly its own threshold, returns
\* no more than min(top_k, 10) sources, each of confidence >= its threshold.
C6_SearchUsesQueryLimitAndThreshold ==
    (query_resp.code = 200 /\ query_resp.request.top_k >= 1)
        => LET q == query_resp.request IN
           /\ query_resp.limit = Min(q.top_k, TopKCap)
           /\ query_resp.threshold = q.threshold
           /\ Len(query_resp.sources) <= Min(q.top_k, TopKCap)
           /\ \A j \in 1..Len(query_resp.sources) :
                 query_resp.sources[j].confidence >= q.threshold

\* C7: when the query is embedded and no vector of the index is as similar
\* as the query's threshold asks, the response is a 200 with the answer
\* "No relevant documents found", no sources and confidence 0.
C7_NothingQualifiesIsEmptyAnswer ==
    (/\ query_resp # NoQueryResponse
     /\ query_resp.request.embed_ok
     /\ \A j \in 1..Len(similarity) : similarity[j].score < query_resp.request.threshold)
        => /\ query_resp.code = 200
           /\ query_resp.answer = "No relevant documents found"
           /\ query_resp.sources = <<>>
           /\ query_resp.confidence = 0

\* C7's case: threshold 0.9 asked of an index whose best match scores 0.5
C7_Witness ==
    /\ query_resp # NoQueryResponse
    /\ query_resp.request.embed_ok
    /\ query_resp.request.threshold = 90
    /\ Len(similarity) > 0
    /\ \A j \in 1..Len(similarity) : similarity[j].score = 50
    /\ query_resp.sources = <<>>

----------------------------------------------------------------------------
(* Properties of the retention sweep (SweepSpec) *)

\* the rounds of a sweep over n old documents none of whose deletions fails
RECURSIVE ExpectedRounds(_)
ExpectedRounds(n) ==
    IF n < CLEANUP_BATCH_SIZE THEN <<n>>
    ELSE <<CLEANUP_BATCH_SIZE>> \o ExpectedRounds(n - CLEANUP_BATCH_SIZE)

\* C8: the sweep over n old documents (next_id = n + 2) ends; its rounds are
\* full batches up to the last, the first to handle fewer than
\* CLEANUP_BATCH_SIZE; when no deletion failed they are the batches of n in
\* order and no document older than the cutoff remains.
C8_SweepEndsAfterShortRound ==
    /\ <>(DOMAIN sweeps = {})
    /\ [](DOMAIN sweeps = {} =>
            LET rounds == sweep_log.rounds IN
            /\ Len(rounds) > 0
            /\ \A k \in 1..Len(rounds) :
                  (rounds[k] < CLEANUP_BATCH_SIZE) <=> (k = Len(rounds))
            /\ sweep_log.failures = 0 =>
                  /\ rounds = ExpectedRounds(next_id - 2)
                  /\ \A d \in DOMAIN documents : d > expired_upto)

\* C8's case: 250 old documents swept in rounds of 100, 100 and 50
C8_Witness ==
    /\ DOMAIN sweeps = {}
    /\ next_id = 252
    /\ sweep_log = [rounds |-> <<100, 100, 50>>, failures |-> 0]
    /\ DOMAIN documents = {251}

\* C9: as claimed, when the sweep has ended the only old documents left are
\* ones whose own deletion failed: no more of them than deletions failed.
C9_FailedDeletionIsIsolated ==
    DOMAIN sweeps = {} =>
        Cardinality({d \in DOMAIN documents : d <= expired_upto}) <= sweep_log.failures

----------------------------------------------------------------------------
(* Properties of the health report (HealthSpec) *)

\* C10: as claimed, a health report (of a service whose monitor is set up)
\* is a 200 with an entry per probed subsystem, whose overall status is
\* "healthy" when every entry is, and "degraded" otherwise.
C10_HealthReportIsNeverAnError ==
    (/\ health_resp # NoHealthResponse
     /\ health_resp.status # "Health monitor not initialized")
        => /\ health_resp.code = 200
           /\ health_resp.status =
                 IF \A s \in DOMAIN health_resp.components :
                        health_resp.components[s] = "healthy"
                 THEN "healthy" ELSE "degraded"

----------------------------------------------------------------------------
(* Properties of the upload endpoint (Spec) *)

\* C11: as claimed, the response of every accepted upload is returned
\* without waiting for its process_document: no task is in flight whose
\* upload has not been answered.
C11_ResponseNeverWaits ==
    \A r \in DOMAIN tasks : tasks[r].pc = "running" => upload_resp[r] # "none"

\* C11, amended: the step that accepts an upload assigns a fresh id and
\* persists its row with status pending while nothing of the document is
\* chunked, embedded or stored; a deferred upload is answered ("processing")
\* in that same step, an inline one only in the step that ends its
\* process_document.
C11_MetadataFirstResponseWhenDeferred ==
    [][/\ \A r \in DOMAIN tasks' \ DOMAIN tasks :
             LET t == tasks'[r] IN
             /\ t.doc \notin DOMAIN documents
             /\ t.doc \in DOMAIN documents'
             /\ documents'[t.doc].status = "pending"
             /\ t.pc = "running" /\ t.i = 0
             /\ Ordinals(chunks', t.doc) = {}
             /\ Ordinals(vectors', t.doc) = {}
             /\ upload_resp'[r] = IF t.mode = "background" THEN "processing" ELSE "none"
       /\ \A r \in DOMAIN tasks :
             upload_resp'[r] # upload_resp[r]
                => /\ tasks[r].mode = "inline"
                   /\ tasks[r].pc = "running"
                   /\ tasks'[r].pc # "running"
                   /\ upload_resp'[r] = "completed"]_vars

\* C11's case: a deferred upload has been answered and its document is
\* still between two batches
C11_Witness ==
    \E r \in DOMAIN tasks :
        /\ tasks[r].mode = "background"
        /\ tasks[r].pc = "running"
        /\ 0 < tasks[r].i /\ tasks[r].i < tasks[r].nchunks
        /\ upload_resp[r] = "processing"
        /\ tasks[r].doc \in DOMAIN documents

----------------------------------------------------------------------------
(* Properties of chunk_text (ChunkSpec) *)

\* C12: for 0 < chunk_overlap < chunk_size no chunk that chunk_text returns
\* is longer than chunk_size, and "abcdefghij" with chunk_size 4 and
\* overlap 1 gives "abcd", "defg", "ghij".
C12_ChunksWithinChunkSize ==
    chunk_out.returned =>
        /\ \A k \in 1..Len(chunk_out.chunks) :
              Len(chunk_out.chunks[k]) <= chunk_in.chunk_size
        /\ (chunk_in = [text |-> Scenario, chunk_size |-> 4, chunk_overlap |-> 1])
              => chunk_out.chunks = << <<"a", "b", "c", "d">>, <<"d", "e", "f", "g">>,
                                      <<"g", "h", "i", "j">> >>

\* C12's case: the scenario text has been split into its three chunks
C12_Witness ==
    /\ chunk_out.returned
    /\ chunk_in = [text |-> Scenario, chunk_size |-> 4, chunk_overlap |-> 1]
    /\ Len(chunk_out.chunks) = 3
    /\ \A k \in 1..3 : Len(chunk_out.chunks[k]) = 4

----------------------------------------------------------------------------
(* Properties of the stored chunks and vectors (Spec) *)

C14_OneVectorPerChunk ==
    \A r \in DOMAIN vector_tasks :
        vector_tasks[r].pc = "completed" =>
            \A k \in 0..(vector_tasks[r].nchunks - 1) :
                Cardinality({i \in DOMAIN points :
                                points[i] = [doc |-> vector_tasks[r].doc, ordinal |-> k]}) = 1

\* C15: as claimed, an upload with empty content (the one upload that
\* starts no process_document) is answered with a 400 and changes no store:
\* no document row, no chunk, no vector, no task, no sweep.
C15_EmptyUploadIsClientError ==
    [][\A r \in DOMAIN upload_resp' \ DOMAIN upload_resp :
          r \notin DOMAIN tasks'
             => /\ upload_resp'[r] = "error400"
                /\ UNCHANGED <<documents, chunks, vectors, next_id, tasks, sweeps>>]_vars

====
